---- MODULE Spec2Model ----
(***************************************************************************)
(* A model of src/lib/appwrite/api.ts: the exported wrapper functions      *)
(* around the Appwrite SDK (account, databases, storage, avatars).         *)
(*                                                                         *)
(* Every `await` of a vendor call is one step of the invocation: the       *)
(* request is served by the remote service and its response (a truthy      *)
(* response, a falsy value, or a rejection) comes back.  The synchronous   *)
(* code that follows an await up to the next await (or the return) belongs *)
(* to the same step.  Of the remote service the model keeps the storage    *)
(* bucket and the post collection; the account service and the user and    *)
(* saves collections are known by the outcomes of their calls only.        *)
(***************************************************************************)
EXTENDS Integers, Sequences, FiniteSets, TLC

\* ------------------------------------------------------------------ bounds
MaxFiles == 2     \* ids that ID.unique() hands out for files
MaxPosts == 1     \* ids that ID.unique() hands out for post documents
MaxTagLen == 3    \* longest tag string a caller passes

NoId == 0                      \* a missing (undefined / empty) id argument
SomeId == NoId + 1             \* an id of a collection the model does not keep

\* ------------------------------------------------------------------ values
\* What an invocation can deliver, and what a vendor call can yield.
Val(tag, of) == [tag |-> tag, of |-> of]
Undefined == Val("undefined", "-")
Null == Val("null", "-")
\* `throw Error` throws the Error constructor itself
ErrorCtor == Val("Error", "-")
\* the exception a rejected vendor call throws
Rejection(call) == Val("exception", call)
\* the (truthy) response object of a vendor call
Response(call) == Val("response", call)
\* a falsy value a vendor call resolved to
Falsy(call) == Val("falsy", call)
\* response.documents[0]
FirstDocument(call) == Val("documents[0]", call)
\* a locally built { status: s }
StatusObj(s) == Val("status", s)

Outcomes == {"ok", "falsy", "throw"}

\* ------------------------------------------------------------------ tags
Chars == {"a", " ", ","}
NoTags == <<"undefined">>      \* post.tags absent

RECURSIVE StringsUpTo(_)
StringsUpTo(n) ==
    IF n = 0 THEN {<<>>}
    ELSE LET S == StringsUpTo(n - 1)
         IN  S \cup {Append(s, c) : s \in {t \in S : Len(t) = n - 1}, c \in Chars}

\* (a variant without the g flag, s.replace(/ /, ""): the first space removed)
RECURSIVE ReplaceFirstSpace(_)
ReplaceFirstSpace(s) ==
    IF s = <<>> THEN <<>>
    ELSE IF Head(s) = " " THEN Tail(s)
    ELSE <<Head(s)>> \o ReplaceFirstSpace(Tail(s))

\* s.replace(/ /g, ""): every space removed
RECURSIVE ReplaceAllSpaces(_)
ReplaceAllSpaces(s) ==
    IF s = <<>> THEN <<>>
    ELSE IF Head(s) = " " THEN ReplaceAllSpaces(Tail(s))
    ELSE <<Head(s)>> \o ReplaceAllSpaces(Tail(s))

\* s.split(","): the pieces between the commas; "" gives [""]
RECURSIVE SplitComma(_)
SplitComma(s) ==
    IF s = <<>> THEN << <<>> >>
    ELSE LET rest == SplitComma(Tail(s))
         IN  IF Head(s) = "," THEN << <<>> >> \o rest
             ELSE << <<Head(s)>> \o Head(rest) >> \o Tail(rest)

\* post.tags?.replace(/ /g, "").split(",") || []
ParseTags(tags) ==
    IF tags = NoTags THEN <<>>
    ELSE SplitComma(ReplaceAllSpaces(tags))

\* ------------------------------------------------------------------ state
VARIABLES
    files,      \* storage bucket: the ids of the files it holds
    nextFile,   \* next id ID.unique() gives a file
    posts,      \* post collection: records [id, imageId, tags]
    nextPost,   \* next id ID.unique() gives a post document
    fn,         \* fn[p]: the exported function p's invocation runs ("none": never called)
    arg,        \* arg[p]: its arguments
    pc,         \* pc[p]: where the invocation stands ("done": it has completed)
    uploadedFile, \* uploadedFile[p]: uploadedFile.$id (NoId: nothing uploaded)
    log,        \* log[p]: the vendor requests the invocation has issued, in order
    fails,      \* fails[p]: what went wrong in the invocation, as <<call, outcome>>:
                \* "throw" (the call rejected), "falsy" (a falsy result the function
                \* takes for a failure), "unchecked" (a falsy result it passes on),
                \* and <<"argument", "missing">> (an id argument was missing)
    ret         \* ret[p]: how the invocation completed and with which value

remote == <<files, nextFile, posts, nextPost>>
vars == <<files, nextFile, posts, nextPost, fn, arg, pc, uploadedFile, log, fails, ret>>

Pending == [how |-> "pending", val |-> Undefined]
Req(call, id) == [call |-> call, id |-> id]
Args(id, imageId, hasFile, tags) ==
    [id |-> id, imageId |-> imageId, hasFile |-> hasFile, tags |-> tags]
NoArgs == Args(NoId, NoId, FALSE, NoTags)

\* The state after construction, for the callers P: nothing stored, nothing called.
InitOf(P) ==
    /\ files = {}
    /\ nextFile = 1
    /\ posts = {}
    /\ nextPost = 1
    /\ fn = [p \in P |-> "none"]
    /\ arg = [p \in P |-> NoArgs]
    /\ pc = [p \in P |-> "done"]
    /\ uploadedFile = [p \in P |-> NoId]
    /\ log = [p \in P |-> <<>>]
    /\ fails = [p \in P |-> {}]
    /\ ret = [p \in P |-> Pending]

Callers == DOMAIN pc

\* ------------------------------------------------------------------ steps
\* The invocation goes on to `label`, having issued `reqs` and seen `fl` fail.
Goto(p, label, reqs, fl) ==
    /\ pc' = [pc EXCEPT ![p] = label]
    /\ log' = [log EXCEPT ![p] = log[p] \o reqs]
    /\ fails' = [fails EXCEPT ![p] = fails[p] \cup fl]
    /\ UNCHANGED <<fn, arg, ret>>

\* The invocation completes: it returns v (how = "return") or rejects with v ("throw").
Complete(p, how, v, reqs, fl) ==
    /\ pc' = [pc EXCEPT ![p] = "done"]
    /\ log' = [log EXCEPT ![p] = log[p] \o reqs]
    /\ fails' = [fails EXCEPT ![p] = fails[p] \cup fl]
    /\ ret' = [ret EXCEPT ![p] = [how |-> how, val |-> v]]
    /\ UNCHANGED <<fn, arg>>

Return(p, v, reqs, fl) == Complete(p, "return", v, reqs, fl)

At(p, f, label) == fn[p] = f /\ pc[p] = label

\* ------------------------------------------------------------------ the vendor
\* The service can serve a request successfully only if the state allows it: a read,
\* update or delete by id needs its target to exist (a create needs an id left).
PostExists(id) == \E d \in posts : d.id = id
\* the ids ID.unique() has handed out so far: the only ids a caller can know
KnownFiles == 1..(nextFile - 1)
KnownPosts == 1..(nextPost - 1)

\* databases.createDocument(postCollectionId, ID.unique(), {..., imageId, tags})
CreatePostDocument(imageId, tags) ==
    /\ posts' = posts \cup {[id |-> nextPost, imageId |-> imageId, tags |-> tags]}
    /\ nextPost' = nextPost + 1

\* databases.updateDocument(postCollectionId, postId, {..., imageId, tags})
UpdatePostDocument(id, imageId, tags) ==
    /\ posts' = {d \in posts : d.id # id}
                  \cup {[id |-> id, imageId |-> imageId, tags |-> tags]}
    /\ UNCHANGED nextPost

\* databases.deleteDocument(postCollectionId, postId)
DeletePostDocument(id) ==
    /\ posts' = {d \in posts : d.id # id}
    /\ UNCHANGED nextPost

\* storage.createFile(storageId, ID.unique(), file)
CreateFile ==
    /\ files' = files \cup {nextFile}
    /\ nextFile' = nextFile + 1

\* storage.deleteFile(storageId, fileId)
RemoveFile(id) ==
    /\ files' = files \ {id}
    /\ UNCHANGED nextFile

\* ------------------------------------------------------------------ the callers
Functions ==
    {"createUserAccount", "signInAccount", "saveUserToDB", "getAccount",
     "getCurrentUser", "signOutAccount", "createPost", "uploadFile",
     "getFilePreview", "deleteFile", "searchPosts", "getInfinitePosts",
     "getPostById", "updatePost", "deletePost", "likePost", "savePost",
     "deleteSavedPost", "getUserPosts", "getRecentPosts", "getUsers",
     "getUserById", "updateUser"}

\* The argument values a caller may pass to f; T: the tag strings it may pass.
\* An id argument is missing (NoId) or one of the ids handed out so far.
ArgsOf(f, T) ==
    CASE f \in {"getPostById", "getInfinitePosts", "likePost"} ->
            {Args(i, NoId, FALSE, NoTags) : i \in {NoId} \cup KnownPosts}
      [] f = "getUserPosts" ->
            {Args(i, NoId, FALSE, NoTags) : i \in {NoId, SomeId}}
      [] f \in {"deleteFile", "getFilePreview"} ->
            {Args(NoId, j, FALSE, NoTags) : j \in {NoId} \cup KnownFiles}
      [] f = "deletePost" ->
            {Args(i, j, FALSE, NoTags) : i \in {NoId} \cup KnownPosts,
                                         j \in {NoId} \cup KnownFiles}
      [] f = "createPost" ->
            {Args(NoId, NoId, TRUE, t) : t \in T}
      [] f = "updatePost" ->
            {Args(i, j, h, t) : i \in {NoId} \cup KnownPosts, j \in {NoId} \cup KnownFiles,
                                h \in BOOLEAN, t \in T}
      [] f = "updateUser" ->
            {Args(SomeId, j, h, NoTags) : j \in {NoId} \cup KnownFiles, h \in BOOLEAN}
      [] OTHER -> {NoArgs}

\* The same for a caller that passes updatePost and deletePost the ids it has read
\* from a post document: the document's id and the imageId stored in it.
ArgsRead(f, T) ==
    CASE f = "deletePost" ->
            {Args(d.id, d.imageId, FALSE, NoTags) : d \in posts}
      [] f = "updatePost" ->
            {Args(d.id, d.imageId, h, t) : d \in posts, h \in BOOLEAN, t \in T}
      [] OTHER -> ArgsOf(f, T)

\* A caller invokes an exported function of F; its previous invocation has completed.
\* stored: it passes the ids stored in a post document.
Call(p, F, T, stored) ==
    /\ pc[p] = "done"
    /\ \E f \in F : \E a \in (IF stored THEN ArgsRead(f, T) ELSE ArgsOf(f, T)) :
        /\ fn' = [fn EXCEPT ![p] = f]
        /\ arg' = [arg EXCEPT ![p] = a]
    /\ pc' = [pc EXCEPT ![p] = "start"]
    /\ uploadedFile' = [uploadedFile EXCEPT ![p] = NoId]
    /\ log' = [log EXCEPT ![p] = <<>>]
    /\ fails' = [fails EXCEPT ![p] = {}]
    /\ ret' = [ret EXCEPT ![p] = Pending]
    /\ UNCHANGED remote

\* ------------------------------------------------------------------ one vendor call
\* try { const r = await call(...); [if (!r) throw Error;] return r } catch { log }
\* `checked`: the function tests the result; `canOk`: the service can serve it;
\* `effect`: what serving it does to the remote state.
Forward(p, call, id, checked, canOk, effect) ==
    \E o \in Outcomes :
        /\ (o = "ok") => canOk
        /\ IF o = "ok" THEN effect ELSE UNCHANGED remote
        /\ CASE o = "ok" -> Return(p, Response(call), <<Req(call, id)>>, {})
             [] o = "falsy" ->
                    IF checked
                    THEN Return(p, Undefined, <<Req(call, id)>>, {<<call, "falsy">>})
                    ELSE Return(p, Falsy(call), <<Req(call, id)>>, {<<call, "unchecked">>})
             [] o = "throw" -> Return(p, Undefined, <<Req(call, id)>>, {<<call, "throw">>})
        /\ UNCHANGED uploadedFile

\* ============================== signInAccount
\* (a variant that forgets `return session`)
SignInAccount_forgetsReturn(p) ==
    /\ At(p, "signInAccount", "start")
    /\ \E o \in Outcomes :
          Return(p, Undefined, <<Req("account.createEmailPasswordSession", NoId)>>,
                 IF o = "throw" THEN {<<"account.createEmailPasswordSession", o>>} ELSE {})
    /\ UNCHANGED remote
    /\ UNCHANGED uploadedFile

SignInAccount(p) ==
    /\ At(p, "signInAccount", "start")
    /\ Forward(p, "account.createEmailPasswordSession", NoId, FALSE, TRUE, UNCHANGED remote)

\* ============================== saveUserToDB
SaveUserToDB(p) ==
    /\ At(p, "saveUserToDB", "start")
    /\ Forward(p, "databases.createDocument", NoId, FALSE, TRUE, UNCHANGED remote)

\* ============================== getAccount
GetAccount(p) ==
    /\ At(p, "getAccount", "start")
    /\ Forward(p, "account.get", NoId, FALSE, TRUE, UNCHANGED remote)

\* ============================== signOutAccount
SignOutAccount(p) ==
    /\ At(p, "signOutAccount", "start")
    /\ Forward(p, "account.deleteSession", NoId, FALSE, TRUE, UNCHANGED remote)

\* ============================== uploadFile
UploadFile(p) ==
    /\ At(p, "uploadFile", "start")
    /\ Forward(p, "storage.createFile", NoId, FALSE, nextFile <= MaxFiles,
               CreateFile
               /\ UNCHANGED <<posts, nextPost>>)

\* ============================== searchPosts
SearchPosts(p) ==
    /\ At(p, "searchPosts", "start")
    /\ Forward(p, "databases.listDocuments", NoId, TRUE, TRUE, UNCHANGED remote)

\* ============================== getInfinitePosts
GetInfinitePosts(p) ==
    /\ At(p, "getInfinitePosts", "start")
    /\ Forward(p, "databases.listDocuments", NoId, TRUE, TRUE, UNCHANGED remote)

\* ============================== likePost
LikePost(p) ==
    /\ At(p, "likePost", "start")
    /\ Forward(p, "databases.updateDocument", arg[p].id, TRUE, PostExists(arg[p].id),
               UNCHANGED remote)

\* ============================== savePost
SavePost(p) ==
    /\ At(p, "savePost", "start")
    /\ Forward(p, "databases.createDocument", NoId, TRUE, TRUE, UNCHANGED remote)

\* ============================== getRecentPosts
GetRecentPosts(p) ==
    /\ At(p, "getRecentPosts", "start")
    /\ Forward(p, "databases.listDocuments", NoId, TRUE, TRUE, UNCHANGED remote)

\* ============================== getUsers
GetUsers(p) ==
    /\ At(p, "getUsers", "start")
    /\ Forward(p, "databases.listDocuments", NoId, TRUE, TRUE, UNCHANGED remote)

\* ============================== getUserById
GetUserById(p) ==
    /\ At(p, "getUserById", "start")
    /\ Forward(p, "databases.getDocument", NoId, TRUE, TRUE, UNCHANGED remote)

\* ============================== getUserPosts
GetUserPosts(p) ==
    /\ At(p, "getUserPosts", "start")
    /\ IF arg[p].id = NoId
       THEN \* if (!userId) return;
            Return(p, Undefined, <<>>, {<<"argument", "missing">>})
            /\ UNCHANGED remote /\ UNCHANGED uploadedFile
       ELSE Forward(p, "databases.listDocuments", NoId, TRUE, TRUE, UNCHANGED remote)

\* ============================== getPostById
GetPostById(p) ==
    /\ At(p, "getPostById", "start")
    /\ IF arg[p].id = NoId
       THEN \* if (!postId) throw Error;  -- outside the try block
            Complete(p, "throw", ErrorCtor, <<>>, {<<"argument", "missing">>})
            /\ UNCHANGED remote /\ UNCHANGED uploadedFile
       ELSE Forward(p, "databases.getDocument", arg[p].id, TRUE, PostExists(arg[p].id),
                    UNCHANGED remote)

\* ------------------------------------------------------------------ shared steps
\* await deleteFile(id), after which the caller completes with v: deleteFile catches
\* the rejection of storage.deleteFile itself, and no caller reads its result.
DeleteFileThen(p, id, v) ==
    \E o \in {"ok", "throw"} :
        /\ (o = "ok") => id \in files
        /\ IF o = "ok"
           THEN RemoveFile(id)
                /\ UNCHANGED <<posts, nextPost>>
           ELSE UNCHANGED remote
        /\ Return(p, v, <<Req("storage.deleteFile", id)>>,
                  IF o = "ok" THEN {} ELSE {<<"storage.deleteFile", o>>})
        /\ UNCHANGED uploadedFile

\* const uploadedFile = await uploadFile(file[0]); if (!uploadedFile) throw Error;
\* const fileUrl = getFilePreview(uploadedFile.$id);
\* if (!fileUrl) { await deleteFile(uploadedFile.$id); throw Error; }
\* getFilePreview is synchronous and issues no request.
UploadAndPreview(p, okLabel, cleanupLabel) ==
    \E o \in Outcomes :
        /\ (o = "ok") => nextFile <= MaxFiles
        /\ IF o = "ok"
           THEN /\ CreateFile
                /\ UNCHANGED <<posts, nextPost>>
                /\ uploadedFile' = [uploadedFile EXCEPT ![p] = nextFile]
                /\ \E v \in Outcomes :
                      IF v = "ok"
                      THEN Goto(p, okLabel, <<Req("storage.createFile", NoId)>>, {})
                      ELSE Goto(p, cleanupLabel, <<Req("storage.createFile", NoId)>>,
                                {<<"storage.getFilePreview", v>>})
           ELSE /\ UNCHANGED remote
                /\ UNCHANGED uploadedFile
                /\ Return(p, Undefined, <<Req("storage.createFile", NoId)>>,
                          {<<"storage.createFile", o>>})

\* ============================== createUserAccount
CreateUserAccount_create(p) ==
    /\ At(p, "createUserAccount", "start")
    /\ \E o \in Outcomes :
        /\ CASE o = "ok" ->
                  \E g \in {"ok", "throw"} :   \* avatars.getInitials(user.name)
                        IF g = "ok"
                        THEN Goto(p, "saveUserToDB", <<Req("account.create", NoId)>>, {})
                        ELSE \* catch (error) { return error }
                             Return(p, Rejection("avatars.getInitials"),
                                    <<Req("account.create", NoId)>>,
                                    {<<"avatars.getInitials", "throw">>})
             [] o = "falsy" ->
                  \* if (!newAccount) throw Error;  catch (error) { return error }
                  Return(p, ErrorCtor, <<Req("account.create", NoId)>>,
                            {<<"account.create", "falsy">>})
             [] o = "throw" ->
                  Return(p, Rejection("account.create"), <<Req("account.create", NoId)>>,
                            {<<"account.create", "throw">>})
    /\ UNCHANGED remote
    /\ UNCHANGED uploadedFile

\* const newUser = await saveUserToDB({...}); return newUser;
CreateUserAccount_saveUserToDB(p) ==
    /\ At(p, "createUserAccount", "saveUserToDB")
    /\ \E o \in Outcomes :
        /\ UNCHANGED remote
        /\ CASE o = "ok" ->
                  Return(p, Response("databases.createDocument"),
                         <<Req("databases.createDocument", NoId)>>, {})
             [] o = "falsy" ->
                  Return(p, Falsy("databases.createDocument"),
                         <<Req("databases.createDocument", NoId)>>,
                         {<<"databases.createDocument", "unchecked">>})
             [] o = "throw" ->
                  Return(p, Undefined, <<Req("databases.createDocument", NoId)>>,
                         {<<"databases.createDocument", "throw">>})
    /\ UNCHANGED uploadedFile

\* ============================== getCurrentUser
\* const currentAccount = await getAccount(); if (!currentAccount) throw Error;
GetCurrentUser_getAccount(p) ==
    /\ At(p, "getCurrentUser", "start")
    /\ \E o \in Outcomes :
          IF o = "ok"
          THEN Goto(p, "listDocuments", <<Req("account.get", NoId)>>, {})
          ELSE Return(p, Null, <<Req("account.get", NoId)>>, {<<"account.get", o>>})
    /\ UNCHANGED remote
    /\ UNCHANGED uploadedFile

\* const currentUser = await databases.listDocuments(...);
\* if (!currentUser) throw Error; return currentUser.documents[0];
GetCurrentUser_listDocuments(p) ==
    /\ At(p, "getCurrentUser", "listDocuments")
    /\ \E o \in Outcomes :
          IF o = "ok"
          THEN Return(p, FirstDocument("databases.listDocuments"),
                      <<Req("databases.listDocuments", NoId)>>, {})
          ELSE Return(p, Null, <<Req("databases.listDocuments", NoId)>>,
                      {<<"databases.listDocuments", o>>})
    /\ UNCHANGED remote
    /\ UNCHANGED uploadedFile

\* ============================== getFilePreview (synchronous: no request)
GetFilePreview(p) ==
    /\ At(p, "getFilePreview", "start")
    /\ \E o \in Outcomes :
          IF o = "ok"
          THEN Return(p, Response("storage.getFilePreview"), <<>>, {})
          ELSE Return(p, Undefined, <<>>, {<<"storage.getFilePreview", o>>})
    /\ UNCHANGED remote
    /\ UNCHANGED uploadedFile

\* ============================== deleteFile
\* await storage.deleteFile(storageId, fileId); return { status: "ok" };
DeleteFile(p) ==
    /\ At(p, "deleteFile", "start")
    /\ \E o \in {"ok", "throw"} :
        /\ (o = "ok") => arg[p].imageId \in files
        /\ IF o = "ok"
           THEN /\ RemoveFile(arg[p].imageId)
                /\ UNCHANGED <<posts, nextPost>>
                /\ Return(p, StatusObj("ok"), <<Req("storage.deleteFile", arg[p].imageId)>>, {})
           ELSE /\ UNCHANGED remote
                /\ Return(p, Undefined, <<Req("storage.deleteFile", arg[p].imageId)>>,
                          {<<"storage.deleteFile", o>>})
    /\ UNCHANGED uploadedFile

\* ============================== deleteSavedPost
\* const statusCode = await databases.deleteDocument(...);
\* if (!statusCode) throw Error; return { status: "Ok" };
DeleteSavedPost(p) ==
    /\ At(p, "deleteSavedPost", "start")
    /\ \E o \in Outcomes :
          IF o = "ok"
          THEN Return(p, StatusObj("Ok"), <<Req("databases.deleteDocument", NoId)>>, {})
          ELSE Return(p, Undefined, <<Req("databases.deleteDocument", NoId)>>,
                      {<<"databases.deleteDocument", o>>})
    /\ UNCHANGED remote
    /\ UNCHANGED uploadedFile

\* ============================== createPost
CreatePost_uploadFile(p) ==
    /\ At(p, "createPost", "start")
    /\ UploadAndPreview(p, "createDocument", "deleteFile")

\* const newPost = await databases.createDocument(...);
\* if (!newPost) { await deleteFile(uploadedFile.$id); throw Error; } return newPost;
CreatePost_createDocument(p) ==
    /\ At(p, "createPost", "createDocument")
    /\ \E o \in Outcomes :
        /\ (o = "ok") => nextPost <= MaxPosts
        /\ IF o = "ok"
           THEN CreatePostDocument(uploadedFile[p], ParseTags(arg[p].tags))
                /\ UNCHANGED <<files, nextFile>>
           ELSE UNCHANGED remote
        /\ CASE o = "ok" ->
                  Return(p, Response("databases.createDocument"),
                         <<Req("databases.createDocument", NoId)>>, {})
             [] o = "falsy" ->
                  Goto(p, "deleteFile", <<Req("databases.createDocument", NoId)>>,
                       {<<"databases.createDocument", "falsy">>})
             [] o = "throw" ->
                  Return(p, Undefined, <<Req("databases.createDocument", NoId)>>,
                         {<<"databases.createDocument", "throw">>})
    /\ UNCHANGED uploadedFile

\* await deleteFile(uploadedFile.$id); throw Error;
CreatePost_deleteFile(p) ==
    /\ At(p, "createPost", "deleteFile")
    /\ DeleteFileThen(p, uploadedFile[p], Undefined)

\* ============================== deletePost
\* (a variant whose document delete removes the post's file in the same request)
DeletePost_deleteDocument_cascades(p) ==
    /\ At(p, "deletePost", "start")
    /\ arg[p].id # NoId /\ arg[p].imageId # NoId
    /\ PostExists(arg[p].id)
    /\ DeletePostDocument(arg[p].id)
    /\ RemoveFile(arg[p].imageId)
    /\ Return(p, StatusObj("Ok"), <<Req("databases.deleteDocument", arg[p].id)>>, {})
    /\ UNCHANGED uploadedFile

DeletePost_deleteDocument(p) ==
    /\ At(p, "deletePost", "start")
    /\ IF arg[p].id = NoId \/ arg[p].imageId = NoId
       THEN \* if (!postId || !imageId) return;
            Return(p, Undefined, <<>>, {<<"argument", "missing">>}) /\ UNCHANGED remote
       ELSE \E o \in Outcomes :
              /\ (o = "ok") => PostExists(arg[p].id)
              /\ IF o = "ok"
                 THEN /\ DeletePostDocument(arg[p].id)
                      /\ UNCHANGED <<files, nextFile>>
                      /\ Goto(p, "deleteFile", <<Req("databases.deleteDocument", arg[p].id)>>, {})
                 ELSE /\ UNCHANGED remote
                      /\ Return(p, Undefined, <<Req("databases.deleteDocument", arg[p].id)>>,
                                {<<"databases.deleteDocument", o>>})
    /\ UNCHANGED uploadedFile

\* await deleteFile(imageId); return { status: "Ok" };
DeletePost_deleteFile(p) ==
    /\ At(p, "deletePost", "deleteFile")
    /\ DeleteFileThen(p, arg[p].imageId, StatusObj("Ok"))

\* ============================== updatePost
\* image.imageId: the uploaded file's id when a file was uploaded, else post.imageId
Image(p) == IF arg[p].hasFile THEN uploadedFile[p] ELSE arg[p].imageId

\* (a variant that deletes post.imageId, the old file, in the cleanup)
FileDeletedOnFailedUpdate_old(p) == arg[p].imageId

\* if (!updatedPost) { if (hasFileToUpdate) await deleteFile(image.imageId); throw Error; }
FileDeletedOnFailedUpdate(p) == Image(p)

\* (a variant that deletes post.imageId after every successful update, new file or not)
UpdatePost_deletesOldFile_always(p) == TRUE

\* if (hasFileToUpdate) { await deleteFile(post.imageId); }
UpdatePost_deletesOldFile(p) == arg[p].hasFile

\* if (user.imageId && hasFileToUpdate) { await deleteFile(user.imageId); }
UpdateUser_deletesOldFile(p) == arg[p].imageId # NoId /\ arg[p].hasFile

\* if (hasFileToUpdate) { uploadFile; getFilePreview; image = {...} }
UpdatePost_uploadFile(p) ==
    /\ At(p, "updatePost", "start")
    /\ arg[p].hasFile
    /\ UploadAndPreview(p, "updateDocument", "deleteNewFile")

\* const updatedPost = await databases.updateDocument(...), and what follows it
UpdatePost_updateDocument(p) ==
    /\ fn[p] = "updatePost"
    /\ pc[p] = "updateDocument" \/ (pc[p] = "start" /\ ~arg[p].hasFile)
    /\ \E o \in Outcomes :
        /\ (o = "ok") => PostExists(arg[p].id)
        /\ IF o = "ok"
           THEN UpdatePostDocument(arg[p].id, Image(p), ParseTags(arg[p].tags))
                /\ UNCHANGED <<files, nextFile>>
           ELSE UNCHANGED remote
        /\ CASE o = "ok" ->
                  IF UpdatePost_deletesOldFile(p)
                  THEN Goto(p, "deleteOldFile", <<Req("databases.updateDocument", arg[p].id)>>, {})
                  ELSE Return(p, Response("databases.updateDocument"),
                              <<Req("databases.updateDocument", arg[p].id)>>, {})
             [] o = "falsy" ->
                  IF arg[p].hasFile
                  THEN Goto(p, "deleteNewFile", <<Req("databases.updateDocument", arg[p].id)>>,
                            {<<"databases.updateDocument", "falsy">>})
                  ELSE Return(p, Undefined, <<Req("databases.updateDocument", arg[p].id)>>,
                              {<<"databases.updateDocument", "falsy">>})
             [] o = "throw" ->
                  Return(p, Undefined, <<Req("databases.updateDocument", arg[p].id)>>,
                         {<<"databases.updateDocument", "throw">>})
    /\ UNCHANGED uploadedFile

\* (a variant that forgets `throw Error` after the cleanup and falls through to the
\* deletion of the old file)
UpdatePost_deleteNewFile_fallsThrough(p) ==
    /\ At(p, "updatePost", "deleteNewFile")
    /\ \E o \in {"ok", "throw"} :
        /\ (o = "ok") => uploadedFile[p] \in files
        /\ IF o = "ok"
           THEN RemoveFile(uploadedFile[p]) /\ UNCHANGED <<posts, nextPost>>
           ELSE UNCHANGED remote
        /\ Goto(p, "deleteOldFile", <<Req("storage.deleteFile", uploadedFile[p])>>,
                IF o = "ok" THEN {} ELSE {<<"storage.deleteFile", o>>})
    /\ UNCHANGED uploadedFile

\* await deleteFile(uploadedFile.$id) / await deleteFile(image.imageId); throw Error;
UpdatePost_deleteNewFile(p) ==
    /\ At(p, "updatePost", "deleteNewFile")
    /\ DeleteFileThen(p, FileDeletedOnFailedUpdate(p), Undefined)

\* await deleteFile(post.imageId); return updatedPost;
UpdatePost_deleteOldFile(p) ==
    /\ At(p, "updatePost", "deleteOldFile")
    /\ DeleteFileThen(p, arg[p].imageId, Response("databases.updateDocument"))

\* ============================== updateUser
UpdateUser_uploadFile(p) ==
    /\ At(p, "updateUser", "start")
    /\ arg[p].hasFile
    /\ UploadAndPreview(p, "updateDocument", "deleteNewFile")

UpdateUser_updateDocument(p) ==
    /\ fn[p] = "updateUser"
    /\ pc[p] = "updateDocument" \/ (pc[p] = "start" /\ ~arg[p].hasFile)
    /\ \E o \in Outcomes :
        /\ UNCHANGED remote
        /\ CASE o = "ok" ->
                  IF UpdateUser_deletesOldFile(p)
                  THEN Goto(p, "deleteOldFile", <<Req("databases.updateDocument", arg[p].id)>>, {})
                  ELSE Return(p, Response("databases.updateDocument"),
                              <<Req("databases.updateDocument", arg[p].id)>>, {})
             [] o = "falsy" ->
                  IF arg[p].hasFile
                  THEN Goto(p, "deleteNewFile", <<Req("databases.updateDocument", arg[p].id)>>,
                            {<<"databases.updateDocument", "falsy">>})
                  ELSE Return(p, Undefined, <<Req("databases.updateDocument", arg[p].id)>>,
                              {<<"databases.updateDocument", "falsy">>})
             [] o = "throw" ->
                  Return(p, Undefined, <<Req("databases.updateDocument", arg[p].id)>>,
                         {<<"databases.updateDocument", "throw">>})
    /\ UNCHANGED uploadedFile

UpdateUser_deleteNewFile(p) ==
    /\ At(p, "updateUser", "deleteNewFile")
    /\ DeleteFileThen(p, FileDeletedOnFailedUpdate(p), Undefined)

UpdateUser_deleteOldFile(p) ==
    /\ At(p, "updateUser", "deleteOldFile")
    /\ DeleteFileThen(p, arg[p].imageId, Response("databases.updateDocument"))

\* ------------------------------------------------------------------ specification
\* One step of the invocation of caller p.
Step(p) ==
    \/ CreateUserAccount_create(p)
    \/ CreateUserAccount_saveUserToDB(p)
    \/ SignInAccount(p)
    \/ SaveUserToDB(p)
    \/ GetAccount(p)
    \/ GetCurrentUser_getAccount(p)
    \/ GetCurrentUser_listDocuments(p)
    \/ SignOutAccount(p)
    \/ CreatePost_uploadFile(p)
    \/ CreatePost_createDocument(p)
    \/ CreatePost_deleteFile(p)
    \/ UploadFile(p)
    \/ GetFilePreview(p)
    \/ DeleteFile(p)
    \/ SearchPosts(p)
    \/ GetInfinitePosts(p)
    \/ GetPostById(p)
    \/ UpdatePost_uploadFile(p)
    \/ UpdatePost_updateDocument(p)
    \/ UpdatePost_deleteNewFile(p)
    \/ UpdatePost_deleteOldFile(p)
    \/ DeletePost_deleteDocument(p)
    \/ DeletePost_deleteFile(p)
    \/ LikePost(p)
    \/ SavePost(p)
    \/ DeleteSavedPost(p)
    \/ GetUserPosts(p)
    \/ GetRecentPosts(p)
    \/ GetUsers(p)
    \/ GetUserById(p)
    \/ UpdateUser_uploadFile(p)
    \/ UpdateUser_updateDocument(p)
    \/ UpdateUser_deleteNewFile(p)
    \/ UpdateUser_deleteOldFile(p)

\* One caller, one invocation at a time, any exported function.
One == {"a"}

Init == InitOf(One)

Next == \E p \in One : Call(p, Functions, {NoTags}, FALSE) \/ Step(p)

Spec == Init /\ [][Next]_vars

\* Two callers whose invocations overlap freely; they pass updatePost and deletePost
\* the ids stored in the post document.
Two == {"a", "b"}

ChainedFunctions == {"createUserAccount", "createPost", "updatePost", "deletePost"}

InitConc == InitOf(Two)

NextConc ==
    \E p \in Two :
        \/ Call(p, ChainedFunctions \cup {"getPostById"}, {NoTags}, TRUE)
        \/ CreateUserAccount_create(p)
        \/ CreateUserAccount_saveUserToDB(p)
        \/ CreatePost_uploadFile(p)
        \/ CreatePost_createDocument(p)
        \/ CreatePost_deleteFile(p)
        \/ GetPostById(p)
        \/ UpdatePost_uploadFile(p)
        \/ UpdatePost_updateDocument(p)
        \/ UpdatePost_deleteNewFile(p)
        \/ UpdatePost_deleteOldFile(p)
        \/ DeletePost_deleteDocument(p)
        \/ DeletePost_deleteFile(p)

SpecConc == InitConc /\ [][NextConc]_vars

\* One invocation of createPost or updatePost for every tag string: the invocation
\* has just been called; updatePost finds the post that a createPost without tags
\* has left behind.
TagInputs == {NoTags} \cup StringsUpTo(MaxTagLen)

InitTags ==
    \E f \in {"createPost", "updatePost"} : \E t \in TagInputs : \E h \in BOOLEAN :
        /\ IF f = "createPost"
           THEN files = {} /\ nextFile = 1 /\ posts = {} /\ nextPost = 1
           ELSE /\ files = {1}
                /\ nextFile = 2
                /\ posts = {[id |-> 1, imageId |-> 1, tags |-> <<>>]}
                /\ nextPost = 2
        /\ fn = [p \in One |-> f]
        /\ arg = [p \in One |-> IF f = "createPost" THEN Args(NoId, NoId, TRUE, t)
                                                     ELSE Args(1, 1, h, t)]
        /\ f = "createPost" => h
        /\ pc = [p \in One |-> "start"]
        /\ uploadedFile = [p \in One |-> NoId]
        /\ log = [p \in One |-> <<>>]
        /\ fails = [p \in One |-> {}]
        /\ ret = [p \in One |-> Pending]

NextTags ==
    \E p \in One :
        \/ CreatePost_uploadFile(p)
        \/ CreatePost_createDocument(p)
        \/ CreatePost_deleteFile(p)
        \/ UpdatePost_uploadFile(p)
        \/ UpdatePost_updateDocument(p)
        \/ UpdatePost_deleteNewFile(p)
        \/ UpdatePost_deleteOldFile(p)

SpecTags == InitTags /\ [][NextTags]_vars

\* One caller that runs createPost, updatePost and deletePost one after another,
\* from empty storage and no posts, and passes updatePost and deletePost the id and
\* the imageId stored in the post document at the time of the call.
PostFunctions == {"createPost", "updatePost", "deletePost"}

InitSeq == InitOf(One)

NextSeq ==
    \E p \in One :
        \/ Call(p, PostFunctions, {NoTags}, TRUE)
        \/ CreatePost_uploadFile(p)
        \/ CreatePost_createDocument(p)
        \/ CreatePost_deleteFile(p)
        \/ UpdatePost_uploadFile(p)
        \/ UpdatePost_updateDocument(p)
        \/ UpdatePost_deleteNewFile(p)
        \/ UpdatePost_deleteOldFile(p)
        \/ DeletePost_deleteDocument(p)
        \/ DeletePost_deleteFile(p)

SpecSeq == InitSeq /\ [][NextSeq]_vars

\* Two callers that have each read the post document that a createPost has left
\* behind and have each just called updatePost on it, with or without a new file,
\* before either has issued a request; their vendor calls then interleave freely.
InitUpd ==
    \E ha \in BOOLEAN : \E hb \in BOOLEAN :
        /\ files = {1}
        /\ nextFile = 2
        /\ posts = {[id |-> 1, imageId |-> 1, tags |-> <<>>]}
        /\ nextPost = 2
        /\ fn = [p \in Two |-> "updatePost"]
        /\ arg = [p \in Two |-> Args(1, 1, IF p = "a" THEN ha ELSE hb, NoTags)]
        /\ pc = [p \in Two |-> "start"]
        /\ uploadedFile = [p \in Two |-> NoId]
        /\ log = [p \in Two |-> <<>>]
        /\ fails = [p \in Two |-> {}]
        /\ ret = [p \in Two |-> Pending]

NextUpd ==
    \E p \in Two :
        \/ UpdatePost_uploadFile(p)
        \/ UpdatePost_updateDocument(p)
        \/ UpdatePost_deleteNewFile(p)
        \/ UpdatePost_deleteOldFile(p)

SpecUpd == InitUpd /\ [][NextUpd]_vars

\* ------------------------------------------------------------------ what the claims read
Done(p) == pc[p] = "done" /\ fn[p] # "none"
Returned(p, v) == ret[p] = [how |-> "return", val |-> v]
Issued(p, call, id) == \E i \in DOMAIN log[p] : log[p][i] = Req(call, id)
FailedAt(p, call) == \E c \in fails[p] : c[1] = call /\ c[2] \in {"falsy", "throw"}

\* A vendor call of the invocation failed, and the function did not go on regardless:
\* a rejection that deleteFile swallows inside another function's cleanup, and a falsy
\* result passed on unchecked, are no failures of the function.
VendorFailed(p) ==
    \E c \in fails[p] :
        /\ c[2] \in {"falsy", "throw"}
        /\ c[1] = "storage.deleteFile" => fn[p] = "deleteFile"

\* Every vendor call the invocation made succeeded, and it made one.
AllSucceeded(p) ==
    /\ Done(p)
    /\ fails[p] = {}
    /\ Len(log[p]) > 0 \/ fn[p] = "getFilePreview"

\* ------------------------------------------------------------------ C1
\* C1: no exported function propagates a failure: every invocation completes by
\* returning a value, never by throwing or rejecting.
C1_NeverThrows ==
    \A p \in Callers : Done(p) => ret[p].how = "return"

\* ------------------------------------------------------------------ C2
\* C2: whenever a vendor call of an invocation failed, the value the function returns
\* is undefined or null.
C2_FailureGivesUndefinedOrNull ==
    \A p \in Callers :
        (Done(p) /\ VendorFailed(p) /\ ret[p].how = "return")
            => ret[p].val \in {Undefined, Null}

\* ------------------------------------------------------------------ C3
\* C3: in createPost, when the upload succeeded and the document write failed (a falsy
\* result or a rejection), deleteFile has been called with the uploaded file's id by
\* the time createPost returns.
C3_FailedCreateDeletesUpload ==
    \A p \in Callers :
        (Done(p) /\ fn[p] = "createPost" /\ uploadedFile[p] # NoId
                 /\ FailedAt(p, "databases.createDocument"))
            => Issued(p, "storage.deleteFile", uploadedFile[p])

\* ------------------------------------------------------------------ C4
\* The invocations that issue no request: getFilePreview, which only builds a URL,
\* and the early returns (the throw, in getPostById) on a missing id argument.
NoRequestCase(p) ==
    \/ fn[p] = "getFilePreview"
    \/ fn[p] \in {"getPostById", "getUserPosts"} /\ arg[p].id = NoId
    \/ fn[p] = "deletePost" /\ (arg[p].id = NoId \/ arg[p].imageId = NoId)

\* C4 as stated: every invocation issues at least one and at most three requests.
C4_OneToThreeRequests ==
    \A p \in Callers : Done(p) => Len(log[p]) \in 1..3

\* C4 as amended: every invocation issues at most three requests, and at least one
\* unless it is a getFilePreview or a getPostById / getUserPosts / deletePost with a
\* missing id argument, which issue none.
C4_AtMostThreeRequests ==
    \A p \in Callers :
        /\ Len(log[p]) <= 3
        /\ Done(p) => (Len(log[p]) = 0 <=> NoRequestCase(p))

C4_Witness ==
    \E p \in Callers : Done(p) /\ fn[p] = "updatePost" /\ Len(log[p]) = 3

\* ------------------------------------------------------------------ C5
\* The vendor call whose response the claim has the function forward: its one call,
\* and for a chained function its last document / account call.
ForwardedCall(p) ==
    LET I == {i \in DOMAIN log[p] :
                 log[p][i].call \notin {"storage.createFile", "storage.deleteFile"}}
    IN  IF log[p] = <<>> THEN "storage.getFilePreview"
        ELSE IF I = {} THEN log[p][Len(log[p])].call
        ELSE log[p][CHOOSE i \in I : \A j \in I : j <= i].call

\* C5 as stated: when all its vendor calls succeed, a function returns the response
\* object of its vendor call, unchanged.
C5_ForwardsResponse ==
    \A p \in Callers : AllSucceeded(p) => Returned(p, Response(ForwardedCall(p)))

\* C5 as amended: when all its vendor calls succeed, a function returns the response
\* object of its vendor call, except deleteFile, which returns a new { status: "ok" },
\* deletePost and deleteSavedPost, which return a new { status: "Ok" }, and
\* getCurrentUser, which returns documents[0] of the list response.
C5_ForwardsResponseOrStatus ==
    \A p \in Callers :
        AllSucceeded(p) =>
            Returned(p, CASE fn[p] = "deleteFile" -> StatusObj("ok")
                          [] fn[p] \in {"deletePost", "deleteSavedPost"} -> StatusObj("Ok")
                          [] fn[p] = "getCurrentUser" ->
                                FirstDocument("databases.listDocuments")
                          [] OTHER -> Response(ForwardedCall(p)))

C5_Witness ==
    \E p \in Callers : AllSucceeded(p) /\ fn[p] = "deletePost" /\ Len(log[p]) = 2

\* ------------------------------------------------------------------ C6
\* The invocation has applied an effect of its own and has a request still to issue.
WriteCalls ==
    {"account.create", "storage.createFile", "storage.deleteFile",
     "databases.createDocument", "databases.updateDocument", "databases.deleteDocument"}

Partial(p) ==
    /\ pc[p] \notin {"start", "done"}
    /\ \E i \in DOMAIN log[p] : log[p][i].call \in WriteCalls

\* the other caller's invocation is running: its next request meets the present state
Running(q) == pc[q] # "done"

ChangedFiles == (files \ files') \cup (files' \ files)
ChangedPosts == {d.id : d \in (posts \ posts') \cup (posts' \ posts)}

Failed(p) == Done(p) /\ (VendorFailed(p) \/ <<"argument", "missing">> \in fails[p])

\* C7: any two failed invocations of the same function deliver the same outcome: the
\* same returned value and the same return / throw behaviour.
C7_FailuresIndistinguishable ==
    \A p \in Callers : \A q \in Callers :
        (Failed(p) /\ Failed(q) /\ fn[p] = fn[q]) => ret[p] = ret[q]

\* ------------------------------------------------------------------ C8
\* C8: in updatePost and updateUser a delete request for the old file (the imageId
\* the caller passed) is issued only when a new file was supplied, uploaded and
\* previewed, and only after the document update, which succeeded; in updateUser
\* only when the old imageId is not empty.
C8_OldFileDeletedOnlyAfterUpdate ==
    \A p \in Callers :
        fn[p] \in {"updatePost", "updateUser"} =>
            \A i \in DOMAIN log[p] :
                log[p][i] = Req("storage.deleteFile", arg[p].imageId) =>
                    /\ arg[p].hasFile
                    /\ uploadedFile[p] # NoId
                    /\ ~FailedAt(p, "storage.createFile")
                    /\ ~FailedAt(p, "storage.getFilePreview")
                    /\ \E j \in 1..(i - 1) : log[p][j].call = "databases.updateDocument"
                    /\ ~FailedAt(p, "databases.updateDocument")
                    /\ fn[p] = "updateUser" => arg[p].imageId # NoId

C8_Witness ==
    \E p \in Callers :
        /\ Done(p) /\ fn[p] = "updateUser"
        /\ Issued(p, "storage.deleteFile", arg[p].imageId)
        /\ arg[p].imageId \notin files

\* ------------------------------------------------------------------ C9
\* C9: in updatePost and updateUser, when a new file was uploaded and the document
\* update failed (a falsy result or a rejection), deleteFile has been called with the
\* new file's id by the time the function returns.
C9_FailedUpdateDeletesUpload ==
    \A p \in Callers :
        (Done(p) /\ fn[p] \in {"updatePost", "updateUser"} /\ uploadedFile[p] # NoId
                 /\ FailedAt(p, "databases.updateDocument"))
            => Issued(p, "storage.deleteFile", uploadedFile[p])

\* ------------------------------------------------------------------ C10
NotSpace(c) == c # " "
IsComma(c) == c = ","

\* tags.join(",")
RECURSIVE JoinComma(_)
JoinComma(w) ==
    IF Len(w) = 1 THEN w[1]
    ELSE w[1] \o <<",">> \o JoinComma(Tail(w))

\* The invocation of createPost or updatePost has written its document.
WroteDocument(p) ==
    \/ fn[p] = "createPost" /\ Returned(p, Response("databases.createDocument"))
    \/ /\ fn[p] = "updatePost"
       /\ \E i \in DOMAIN log[p] : log[p][i].call = "databases.updateDocument"
       /\ ~FailedAt(p, "databases.updateDocument")

\* the document it wrote
IsWrittenBy(d, p) ==
    IF fn[p] = "createPost" THEN d.imageId = uploadedFile[p] ELSE d.id = arg[p].id

\* C10: the tags written to the document are the empty list when post.tags is absent;
\* otherwise no stored tag contains a space, there are as many stored tags as commas
\* in the tag string plus one, and the stored tags joined with commas are the tag
\* string with its spaces removed.
C10_TagsParsed ==
    \A p \in Callers :
        WroteDocument(p) =>
            \E d \in posts :
                /\ IsWrittenBy(d, p)
                /\ IF arg[p].tags = NoTags
                   THEN d.tags = <<>>
                   ELSE /\ \A i \in DOMAIN d.tags : \A k \in DOMAIN d.tags[i] :
                              d.tags[i][k] # " "
                        /\ Len(d.tags) = Len(SelectSeq(arg[p].tags, IsComma)) + 1
                        /\ JoinComma(d.tags) = SelectSeq(arg[p].tags, NotSpace)

C10_Witness ==
    \E p \in Callers :
        /\ WroteDocument(p)
        /\ fn[p] = "updatePost"
        /\ arg[p].tags = <<" ", ",", " ">>
        /\ \E d \in posts : d.tags = << <<>>, <<>> >>

\* ------------------------------------------------------------------ C11
\* Every post document references a file that exists in storage.
PostsReferenceFiles == \A d \in posts : d.imageId \in files

\* C11: when createPost, updatePost and deletePost run one at a time from empty
\* storage and no posts, with the stored ids as arguments and with any vendor call
\* free to fail, then after every invocation each existing post document's imageId
\* is the id of a file that exists in storage.
C11_PostsReferenceFilesSequentially ==
    (\A p \in Callers : pc[p] = "done") => PostsReferenceFiles

\* An updatePost with a new file has replaced the post's image and deleted the old
\* file, and the post is still there.
C11_Witness ==
    \E p \in Callers :
        /\ Done(p)
        /\ fn[p] = "updatePost"
        /\ arg[p].hasFile
        /\ fails[p] = {}
        /\ arg[p].imageId \notin files
        /\ \E d \in posts : d.id = arg[p].id /\ d.imageId = uploadedFile[p]

\* ------------------------------------------------------------------ C12
\* C12: when two updatePost invocations on one post, both called with the ids read
\* from the document before either started, have both returned, the post document's
\* imageId is the id of a file that still exists in storage.
C12_PostReferencesFileAfterUpdates ==
    (\A p \in Callers : fn[p] = "updatePost" /\ Done(p)) => PostsReferenceFiles

====
